---- MODULE Spec2Model ----
(***************************************************************************)
(* The persistent crawl frontier of stract (core/src/crawler/crawl_db.rs): *)
(* the weighted reservoir sampler, the rolling URL state shards with their *)
(* per-domain range records, the domain state store, the redirect store    *)
(* and the CrawlDb operations built on them.                               *)
(***************************************************************************)
EXTENDS Integers, Sequences, FiniteSets, TLC

VARIABLES
    domain_state,   \* CrawlDb.domain_state: stored Domain -> DomainState
    shards,         \* CrawlDb.urls.shards: UrlStateDbShard list, oldest first
    redirects,      \* CrawlDb.redirects: stored Url -> Url
    last,           \* the last CrawlDb call: operation, arguments, result, the state
                    \* before it and the call before it
    calls,          \* the number of CrawlDb calls made
    ws_stream,      \* weighted_sample: the items of the stream
    ws_k,           \* weighted_sample: num_items
    ws_heap,        \* weighted_sample: sampled_items, as the heap's vector
    ws_pos,         \* weighted_sample: number of stream items consumed
    ws_out,         \* weighted_sample: the returned vector, once returned
    ws_drawn,       \* weighted_sample: the priority computed for each consumed item
    written,        \* UrlStateDb on its own: the state last put under each key
    disk_over,      \* UrlStateDb on its own: the SST files of the newest shard are
                    \* larger than MAX_URL_DB_SIZE_BYTES
    urls_dir,       \* the directory of the url store: "missing", "closed" (it exists and
                    \* no UrlStateDb is open on it; shards are then its subdirectories) or
                    \* "open"
    handed          \* how many times prepare_jobs has put each url into a job

vars == <<domain_state, shards, redirects, last, calls, ws_stream, ws_k, ws_heap, ws_pos, ws_out,
          ws_drawn, written, disk_over, urls_dir, handed>>

(***************************************************************************)
(* Bounds of the model.                                                    *)
(***************************************************************************)
NumDomains == 2      \* domains are 1..NumDomains
NumUrls == 3         \* urls are 1..NumUrls, spread round-robin over the domains
MaxCalls == 3        \* the frontier takes at most this many calls
MaxShards == 2       \* no shard is rolled once this many exist
MaxPriority == 2     \* the priorities drawn by the sampler are 1..MaxPriority
MaxSample == 2       \* num_jobs and urls_per_job range over 0..MaxSample
MaxStream == 3       \* longest stream given to weighted_sample on its own
MaxK == 3            \* largest num_items given to weighted_sample on its own

Min(a, b) == IF a < b THEN a ELSE b

(***************************************************************************)
(* weighted_sample and the BinaryHeap<SampledItem<T>> it keeps.  The heap  *)
(* is the vector of the standard library's binary max-heap, position p of  *)
(* the vector being element p + 1 of the sequence.                         *)
(***************************************************************************)
Priorities == 1..MaxPriority

SampledItem(item, priority) == [item |-> item, priority |-> priority]

Swap(h, i, j) == [h EXCEPT ![i] = h[j], ![j] = h[i]]

RECURSIVE SiftUp(_, _)
SiftUp(h, pos) ==
    IF pos = 0 THEN h
    ELSE LET parent == (pos - 1) \div 2 IN
         IF h[pos + 1].priority <= h[parent + 1].priority THEN h
         ELSE SiftUp(Swap(h, pos + 1, parent + 1), parent)

RECURSIVE SiftDown(_, _)
SiftDown(h, pos) ==
    LET end == Len(h)
        child == 2 * pos + 1
    IN  IF end >= 2 /\ child <= end - 2
        THEN LET c == IF h[child + 1].priority <= h[child + 2].priority
                      THEN child + 1 ELSE child
             IN  IF h[pos + 1].priority >= h[c + 1].priority THEN h
                 ELSE SiftDown(Swap(h, pos + 1, c + 1), c)
        ELSE IF child = end - 1 /\ h[pos + 1].priority < h[child + 1].priority
             THEN Swap(h, pos + 1, child + 1)
             ELSE h

HeapPush(h, x) == SiftUp(Append(h, x), Len(h))

\* SampleStep that replaces the top also on an equal priority.
SampleStep_ReplaceOnTie(heap, item, priority, num_items) ==
    IF Len(heap) < num_items
    THEN HeapPush(heap, SampledItem(item, priority))
    ELSE IF Len(heap) > 0 /\ priority <= heap[1].priority
         THEN SiftDown([heap EXCEPT ![1] = SampledItem(item, priority)], 0)
         ELSE heap

\* SampleStep with the heap's length compared by <= : the heap is let grow past num_items.
SampleStep_PushAtCapacity(heap, item, priority, num_items) ==
    IF Len(heap) <= num_items
    THEN HeapPush(heap, SampledItem(item, priority))
    ELSE IF Len(heap) > 0 /\ priority < heap[1].priority
         THEN SiftDown([heap EXCEPT ![1] = SampledItem(item, priority)], 0)
         ELSE heap

\* SampleStep with a heap that is full one item early.
SampleStep_FullEarly(heap, item, priority, num_items) ==
    IF Len(heap) + 1 < num_items
    THEN HeapPush(heap, SampledItem(item, priority))
    ELSE IF Len(heap) > 0 /\ priority < heap[1].priority
         THEN SiftDown([heap EXCEPT ![1] = SampledItem(item, priority)], 0)
         ELSE heap

\* One turn of the loop of weighted_sample on (item, weight) with the drawn priority.
SampleStep(heap, item, priority, num_items) ==
    IF Len(heap) < num_items
    THEN HeapPush(heap, SampledItem(item, priority))
    ELSE IF Len(heap) > 0 /\ priority < heap[1].priority
         THEN SiftDown([heap EXCEPT ![1] = SampledItem(item, priority)], 0)
         ELSE heap

\* HeapItems that leaves out the item at the top of the heap.
HeapItems_DropTop(heap) == [i \in 1..(Len(heap) - 1) |-> heap[i + 1].item]

\* BinaryHeap::into_iter mapped to the items: the heap's vector in its order.
HeapItems(heap) == [i \in 1..Len(heap) |-> heap[i].item]

RECURSIVE SampleLoop(_, _, _, _, _)
SampleLoop(heap, items, priorities, i, num_items) ==
    IF i > Len(items) THEN heap
    ELSE SampleLoop(SampleStep(heap, items[i], priorities[i], num_items),
                    items, priorities, i + 1, num_items)

\* weighted_sample(items, num_items), priorities[i] being the priority drawn for items[i].
weighted_sample(items, priorities, num_items) ==
    HeapItems(SampleLoop(<<>>, items, priorities, 1, num_items))

(***************************************************************************)
(* Values.  A URL is a number, Domain::from(url) spreads the URLs over the *)
(* domains; the order of the numbers stands for the byte order of the      *)
(* serialized values.  Option<T> is a sequence of length 0 (None) or 1.    *)
(***************************************************************************)
Domains == 1..NumDomains
Urls == 1..NumUrls

DomainOf(url) == ((url - 1) % NumDomains) + 1

None == <<>>
Some(x) == <<x>>

UrlStatus == {"Pending", "Crawling", "Failed", "Done"}
DomainStatus == {"Pending", "NoUncrawledUrls", "CrawlInProgress"}

DefaultUrlState == [weight |-> 0, status |-> "Pending"]
DefaultDomainState == [weight |-> 0, status |-> "Pending", total_urls |-> 0]

UnwrapOrDefault(opt, default) == IF opt = None THEN default ELSE opt[1]

\* A key-value store is a function from the stored keys to their values.
KvGet(kv, k) == IF k \in DOMAIN kv THEN Some(kv[k]) ELSE None
KvPut(kv, k, v) == [x \in (DOMAIN kv) \cup {k} |-> IF x = k THEN v ELSE kv[x]]

Perms(S) == {f \in [1..Cardinality(S) -> S] : \A i, j \in 1..Cardinality(S) : f[i] = f[j] => i = j}

(***************************************************************************)
(* UrlStateDbShard: the url store of one shard and its range records.      *)
(***************************************************************************)
\* The composite key bincode(domain) || '/' || bincode(url) and its byte order.
Key(domain, url) == <<domain, url>>
KeyLess(a, b) == a[1] < b[1] \/ (a[1] = b[1] /\ a[2] < b[2])
KeyLeq(a, b) == a = b \/ KeyLess(a, b)

NewShard == [db |-> <<>>, ranges |-> <<>>, approx_over |-> FALSE]

\* bincode of a UrlState: the weight, then the index of the variant of the status.
StatusTag(status) ==
    CASE status = "Pending" -> 0
      [] status = "Crawling" -> 1
      [] status = "Failed" -> 2
      [] status = "Done" -> 3

TagStatus(tag) ==
    CASE tag = 0 -> "Pending"
      [] tag = 1 -> "Crawling"
      [] tag = 2 -> "Failed"
      [] tag = 3 -> "Done"

Serialize(state) == <<state.weight, StatusTag(state.status)>>
Deserialize(state_bytes) == [weight |-> state_bytes[1], status |-> TagStatus(state_bytes[2])]

\* UrlStateDbShard::get
ShardGet(shard, domain, url) ==
    LET state_bytes == KvGet(shard.db, Key(domain, url)) IN
    IF state_bytes = None THEN None ELSE Some(Deserialize(state_bytes[1]))

\* WidenRange that never lowers the start of a record.
WidenRange_EndOnly(range, key) ==
    LET r0 == IF range = None THEN [start |-> key, end |-> key] ELSE range[1]
        r2 == IF KeyLess(r0.end, key) THEN [r0 EXCEPT !.end = key] ELSE r0
    IN  Some(r2)

\* The range record after the loop of put_batch has seen key.
WidenRange(range, key) ==
    LET r0 == IF range = None THEN [start |-> key, end |-> key] ELSE range[1]
        r1 == IF KeyLess(key, r0.start) THEN [r0 EXCEPT !.start = key] ELSE r0
        r2 == IF KeyLess(r1.end, key) THEN [r1 EXCEPT !.end = key] ELSE r1
    IN  Some(r2)

RECURSIVE ShardPutLoop(_, _, _, _, _)
ShardPutLoop(db, range, domain, urls, i) ==
    IF i > Len(urls) THEN [db |-> db, range |-> range]
    ELSE LET key == Key(domain, urls[i][1]) IN
         ShardPutLoop(KvPut(db, key, Serialize(urls[i][2])), WidenRange(range, key),
                      domain, urls, i + 1)

\* UrlStateDbShard::put_batch; urls is a sequence of <<url, state>>.
ShardPutBatch(shard, domain, urls) ==
    LET r == ShardPutLoop(shard.db, KvGet(shard.ranges, domain), domain, urls, 1) IN
    [shard EXCEPT !.db = r.db,
                  !.ranges = IF r.range = None THEN @ ELSE KvPut(@, domain, r.range[1])]

\* The keys of S in ascending byte order.
RECURSIVE SortedKeys(_)
SortedKeys(S) ==
    IF S = {} THEN <<>>
    ELSE LET m == CHOOSE k \in S : \A o \in S : KeyLeq(k, o) IN <<m>> \o SortedKeys(S \ {m})

\* UrlStateDbShard::get_all_urls: a sequence of <<url, state>>.
ShardGetAllUrls(shard, domain) ==
    IF domain \in DOMAIN shard.ranges
    THEN LET range == shard.ranges[domain]
             keys == SortedKeys({k \in DOMAIN shard.db :
                                    KeyLeq(range.start, k) /\ KeyLeq(k, range.end)})
         IN  [i \in 1..Len(keys) |-> <<keys[i][2], Deserialize(shard.db[keys[i]])>>]
    ELSE <<>>

(***************************************************************************)
(* UrlStateDb: the rolling list of shards.                                 *)
(***************************************************************************)
\* What approximate_size_bytes meets: a cached value not older than 10 s, or a
\* fresh read of the total SST size that is under or over MAX_URL_DB_SIZE_BYTES.
SizeReads == {"cached", "under", "over"}

\* UrlStateDbShard::approximate_size_bytes() > MAX_URL_DB_SIZE_BYTES, after the call.
ApproxOver(shard, read) == IF read = "cached" THEN shard.approx_over ELSE read = "over"

\* A read can find the size over the threshold only in a shard that holds data,
\* and the model rolls no shard once MaxShards exist.
ReadPossible(shs, read) ==
    read = "over" => (Len(shs) < MaxShards /\ DOMAIN shs[Len(shs)].db # {})

\* DbGetFrom that looks into the oldest shard first.
RECURSIVE DbGetFrom_OldestFirst(_, _, _, _)
DbGetFrom_OldestFirst(shs, i, domain, url) ==
    IF i = 0 THEN None
    ELSE IF ShardGet(shs[Len(shs) - i + 1], domain, url) # None
         THEN ShardGet(shs[Len(shs) - i + 1], domain, url)
         ELSE DbGetFrom_OldestFirst(shs, i - 1, domain, url)

RECURSIVE DbGetFrom(_, _, _, _)
DbGetFrom(shs, i, domain, url) ==
    IF i = 0 THEN None
    ELSE IF ShardGet(shs[i], domain, url) # None THEN ShardGet(shs[i], domain, url)
         ELSE DbGetFrom(shs, i - 1, domain, url)

\* UrlStateDb::get
DbGet(shs, domain, url) == DbGetFrom(shs, Len(shs), domain, url)

\* DbPutBatch that writes the batch into the shard it found and rolls afterwards.
DbPutBatch_WriteThenRoll(shs, domain, urls, read) ==
    LET n == Len(shs)
        sized == [shs EXCEPT ![n].approx_over = ApproxOver(shs[n], read)]
        put == [sized EXCEPT ![n] = ShardPutBatch(@, domain, urls)]
    IN  IF sized[n].approx_over THEN Append(put, NewShard) ELSE put

\* DbPutBatch that opens a new shard for every batch that is not empty.
DbPutBatch_RollPerBatch(shs, domain, urls, read) ==
    LET n == Len(shs)
        sized == [shs EXCEPT ![n].approx_over = ApproxOver(shs[n], read)]
        rolled == IF sized[n].approx_over \/ (urls # <<>> /\ DOMAIN shs[n].db # {} /\ n < MaxShards)
                  THEN Append(sized, NewShard) ELSE sized
    IN  [rolled EXCEPT ![Len(rolled)] = ShardPutBatch(@, domain, urls)]

\* UrlStateDb::put_batch
DbPutBatch(shs, domain, urls, read) ==
    LET n == Len(shs)
        sized == [shs EXCEPT ![n].approx_over = ApproxOver(shs[n], read)]
        rolled == IF sized[n].approx_over THEN Append(sized, NewShard) ELSE sized
    IN  [rolled EXCEPT ![Len(rolled)] = ShardPutBatch(@, domain, urls)]

RECURSIVE InsertAll(_, _, _)
InsertAll(res, entries, i) ==
    IF i > Len(entries) THEN res
    ELSE InsertAll(KvPut(res, entries[i][1], entries[i][2]), entries, i + 1)

\* DbGetAllFrom that goes through the shards newest first.
RECURSIVE DbGetAllFrom_NewestFirst(_, _, _, _)
DbGetAllFrom_NewestFirst(res, shs, i, domain) ==
    IF i > Len(shs) THEN res
    ELSE DbGetAllFrom_NewestFirst(
             InsertAll(res, ShardGetAllUrls(shs[Len(shs) - i + 1], domain), 1), shs, i + 1, domain)

RECURSIVE DbGetAllFrom(_, _, _, _)
DbGetAllFrom(res, shs, i, domain) ==
    IF i > Len(shs) THEN res
    ELSE DbGetAllFrom(InsertAll(res, ShardGetAllUrls(shs[i], domain), 1), shs, i + 1, domain)

\* UrlStateDb::get_all_urls, as the HashMap url -> state before it is collected.
DbGetAllUrls(shs, domain) == DbGetAllFrom(<<>>, shs, 1, domain)

(***************************************************************************)
(* CrawlDb.  An operation is given as the set of its possible outcomes,    *)
(* one for each way its reads of the shard size, its random draws and its  *)
(* hash map orders can turn out.  st is [domain_state, shards].            *)
(***************************************************************************)
MaxSeedLen == 1      \* insert_seed_urls takes 1..MaxSeedLen urls
MaxJobDomains == 2   \* prepare_jobs takes 1..MaxJobDomains domains

SeqsUpTo(S, lo, hi) == UNION {[1..n -> S] : n \in lo..hi}

\* SeedOne that keeps the state of a url the store already holds.
SeedOne_KeepState(st, url, read) ==
    LET domain == DomainOf(url)
        got == KvGet(st.domain_state, domain)
        state == IF got # None
                 THEN [got[1] EXCEPT !.total_urls = @ + 1]
                 ELSE [weight |-> 0, status |-> "Pending", total_urls |-> 1]
        url_state == UnwrapOrDefault(DbGet(st.shards, domain, url), DefaultUrlState)
    IN  [st EXCEPT !.domain_state = KvPut(st.domain_state, domain, state),
                   !.shards = DbPutBatch(st.shards, domain, <<<<url, url_state>>>>, read)]

\* SeedOne that does not count the url of a domain it knows.
SeedOne_NoCount(st, url, read) ==
    LET domain == DomainOf(url)
        got == KvGet(st.domain_state, domain)
        state == IF got # None
                 THEN got[1]
                 ELSE [weight |-> 0, status |-> "Pending", total_urls |-> 1]
    IN  [st EXCEPT !.domain_state = KvPut(st.domain_state, domain, state),
                   !.shards = DbPutBatch(st.shards, domain, <<<<url, DefaultUrlState>>>>, read)]

\* One turn of the loop of insert_seed_urls.
SeedOne(st, url, read) ==
    LET domain == DomainOf(url)
        got == KvGet(st.domain_state, domain)
        state == IF got # None
                 THEN [got[1] EXCEPT !.total_urls = @ + 1]
                 ELSE [weight |-> 0, status |-> "Pending", total_urls |-> 1]
    IN  [st EXCEPT !.domain_state = KvPut(st.domain_state, domain, state),
                   !.shards = DbPutBatch(st.shards, domain, <<<<url, DefaultUrlState>>>>, read)]

RECURSIVE SeedLoop(_, _, _)
SeedLoop(st, urls, i) ==
    IF i > Len(urls) THEN {st}
    ELSE UNION {SeedLoop(SeedOne(st, urls[i], read), urls, i + 1) :
                    read \in {r \in SizeReads : ReadPossible(st.shards, r)}}

\* CrawlDb::insert_seed_urls
insert_seed_urls(st, urls) == SeedLoop(st, urls, 1)

\* set_domain_status that stores a new DomainState instead of the loaded one.
set_domain_status_FromDefault(st, domain, status) ==
    [st EXCEPT !.domain_state = KvPut(@, domain, [DefaultDomainState EXCEPT !.status = status])]

\* CrawlDb::set_domain_status
set_domain_status(st, domain, status) ==
    LET state == UnwrapOrDefault(KvGet(st.domain_state, domain), DefaultDomainState) IN
    [st EXCEPT !.domain_state = KvPut(@, domain, [state EXCEPT !.status = status])]

\* DomainStateDb::iter filtered to the Pending domains: ascending key order.
RECURSIVE Ascending(_)
Ascending(S) ==
    IF S = {} THEN <<>>
    ELSE LET m == CHOOSE x \in S : \A y \in S : x <= y IN <<m>> \o Ascending(S \ {m})

\* PendingDomains without the filter on the status.
PendingDomains_All(ds) == Ascending(DOMAIN ds)

PendingDomains(ds) == Ascending({d \in DOMAIN ds : ds[d].status = "Pending"})

\* MarkSampled writing a new DomainState instead of the stored one.
RECURSIVE MarkSampled_FromDefault(_, _, _)
MarkSampled_FromDefault(ds, sampled, i) ==
    IF i > Len(sampled) THEN ds
    ELSE MarkSampled_FromDefault(
             KvPut(ds, sampled[i], [DefaultDomainState EXCEPT !.status = "CrawlInProgress"]),
             sampled, i + 1)

RECURSIVE MarkSampled(_, _, _)
MarkSampled(ds, sampled, i) ==
    IF i > Len(sampled) THEN ds
    ELSE LET state == UnwrapOrDefault(KvGet(ds, sampled[i]), DefaultDomainState) IN
         MarkSampled(KvPut(ds, sampled[i], [state EXCEPT !.status = "CrawlInProgress"]),
                     sampled, i + 1)

\* sample_domains that returns the sample and does not store the new status.
sample_domains_NoStore(st, num_jobs) ==
    LET stream == PendingDomains(st.domain_state) IN
    { [st |-> st, ret |-> weighted_sample(stream, priorities, num_jobs)] :
        priorities \in [1..Len(stream) -> Priorities] }

\* CrawlDb::sample_domains: the outcomes are [st, ret].
sample_domains(st, num_jobs) ==
    LET stream == PendingDomains(st.domain_state) IN
    { LET sampled == weighted_sample(stream, priorities, num_jobs) IN
      [st |-> [st EXCEPT !.domain_state = MarkSampled(@, sampled, 1)], ret |-> sampled] :
        priorities \in [1..Len(stream) -> Priorities] }

MaxOf(S) == IF S = {} THEN 0 ELSE CHOOSE x \in S : \A y \in S : y <= x

\* The urls of the store whose latest state is Pending, read key by key.
StoredPending(shs, domain) ==
    {u \in Urls : DbGet(shs, domain, u) # None /\ DbGet(shs, domain, u)[1].status = "Pending"}

\* The weight prepare_jobs stores for the domain, from the list urls it read.
RecomputedWeight(urls) ==
    MaxOf({urls[i][2].weight : i \in {j \in 1..Len(urls) : urls[j][2].status = "Pending"}})

\* IsAvailable without the test of the status.
IsAvailable_Any(state) == TRUE

\* The filter of prepare_jobs on the urls it may hand out.
IsAvailable(state) == state.status = "Pending"

\* MarkCrawling that leaves the status as it was.
MarkCrawling_Keep(state) == state

\* The state prepare_jobs writes for a sampled url with the stored state.
MarkCrawling(state) == [state EXCEPT !.status = "Crawling"]

\* One turn of the loop of prepare_jobs: the outcomes are [st, job, pending].
PrepareOne(st, domain, urls_per_job) ==
    LET all == DbGetAllUrls(st.shards, domain) IN
    { LET urls == [i \in 1..Len(order) |-> <<order[i], all[order[i]]>>]
          available_urls == SelectSeq(urls, LAMBDA e : IsAvailable(e[2]))
      IN  { LET sampled == weighted_sample([i \in 1..Len(available_urls) |-> available_urls[i][1]],
                                           pr.priorities, urls_per_job)
                new_url_states ==
                    [i \in 1..Len(sampled) |->
                        <<sampled[i],
                          MarkCrawling(UnwrapOrDefault(DbGet(st.shards, domain, sampled[i]),
                                                       DefaultUrlState))>>]
                domain_state0 == UnwrapOrDefault(KvGet(st.domain_state, domain), DefaultDomainState)
            IN  [st |-> [st EXCEPT
                            !.domain_state =
                                KvPut(st.domain_state, domain,
                                      [domain_state0 EXCEPT !.weight = RecomputedWeight(urls)]),
                            !.shards = DbPutBatch(st.shards, domain, new_url_states, pr.read)],
                 job |-> [domain |-> domain, fetch_sitemap |-> FALSE, urls |-> sampled],
                 pending |-> StoredPending(st.shards, domain)] :
            pr \in [priorities : [1..Len(available_urls) -> Priorities],
                    read : {r \in SizeReads : ReadPossible(st.shards, r)}] } :
        order \in Perms(DOMAIN all) }

RECURSIVE PrepareLoop(_, _, _, _, _, _)
PrepareLoop(st, jobs, pending, domains, i, urls_per_job) ==
    IF i > Len(domains) THEN {[st |-> st, ret |-> jobs, pending |-> pending]}
    ELSE UNION { PrepareLoop(o.st, Append(jobs, o.job), Append(pending, o.pending),
                             domains, i + 1, urls_per_job) :
                    o \in UNION PrepareOne(st, domains[i], urls_per_job) }

\* CrawlDb::prepare_jobs: the outcomes are [st, ret, pending], pending[i] being the
\* urls of domains[i] stored as Pending when the loop reached it.
prepare_jobs(st, domains, urls_per_job) == PrepareLoop(st, <<>>, <<>>, domains, 1, urls_per_job)

(***************************************************************************)
(* CrawlDb::insert_urls (ingest).  st is [domain_state, shards, redirects].*)
(***************************************************************************)
Redirected(url, new_url) == [kind |-> "Redirected", url |-> url, new_url |-> new_url]
JobResponse(domain, discovered_urls, url_responses) ==
    [domain |-> domain, discovered_urls |-> discovered_urls, url_responses |-> url_responses]

UrlToInsert(url, different_domain) == [url |-> url, different_domain |-> different_domain]

\* FanOps that files a discovered url under the domain of the response.
FanOps_BySource(res) ==
    [i \in 1..Len(res.discovered_urls) |->
        [kind |-> "push", domain |-> res.domain,
         item |-> UrlToInsert(res.discovered_urls[i],
                              res.domain # DomainOf(res.discovered_urls[i]))]]
    \o [i \in 1..Len(res.url_responses) |->
        [kind |-> res.url_responses[i].kind, resp |-> res.url_responses[i]]]

\* What the closure of the parallel loop does for one response, in its order:
\* a push for every discovered url, then a put for every redirect.
FanOps(res) ==
    [i \in 1..Len(res.discovered_urls) |->
        [kind |-> "push", domain |-> DomainOf(res.discovered_urls[i]),
         item |-> UrlToInsert(res.discovered_urls[i],
                              res.domain # DomainOf(res.discovered_urls[i]))]]
    \o [i \in 1..Len(res.url_responses) |->
        [kind |-> res.url_responses[i].kind, resp |-> res.url_responses[i]]]

\* The orders in which the workers' steps can reach the shared maps.
RECURSIVE Interleavings(_)
Interleavings(seqs) ==
    IF \A i \in 1..Len(seqs) : seqs[i] = <<>> THEN {<<>>}
    ELSE UNION { { <<Head(seqs[i])>> \o rest :
                     rest \in Interleavings([seqs EXCEPT ![i] = Tail(seqs[i])]) } :
                 i \in {j \in 1..Len(seqs) : seqs[j] # <<>>} }

\* The DashMap and the redirect store after the steps ops, in that order.
RECURSIVE FanOut(_, _, _, _)
FanOut(domains, redir, ops, i) ==
    IF i > Len(ops) THEN [domains |-> domains, redirects |-> redir]
    ELSE LET op == ops[i] IN
         IF op.kind = "push"
         THEN FanOut(KvPut(domains, op.domain,
                           Append(UnwrapOrDefault(KvGet(domains, op.domain), <<>>), op.item)),
                     redir, ops, i + 1)
         ELSE IF op.kind = "Redirected"
              THEN FanOut(domains, KvPut(redir, op.resp.url, op.resp.new_url), ops, i + 1)
              ELSE FanOut(domains, redir, ops, i + 1)

\* RaiseDomainWeight that never raises.
RaiseDomainWeight_Never(ds, us) == ds

\* The domain state after the loop has compared it with the url state us.
RaiseDomainWeight(ds, us) == IF us.weight > ds.weight THEN [ds EXCEPT !.weight = us.weight] ELSE ds

\* MergeUrls that stores every discovered url with a new state, stored before or not.
RECURSIVE MergeUrls_AsNew(_, _, _, _, _)
MergeUrls_AsNew(acc, shs, domain, urls, i) ==
    IF i > Len(urls) THEN acc
    ELSE LET got == DbGet(shs, domain, urls[i].url)
             ds1 == IF got = None
                    THEN [acc.domain_state EXCEPT !.total_urls = @ + 1]
                    ELSE acc.domain_state
             us0 == [DefaultUrlState EXCEPT !.weight = UnwrapOrDefault(got, DefaultUrlState).weight]
             us1 == IF urls[i].different_domain THEN [us0 EXCEPT !.weight = @ + 1] ELSE us0
             ds2 == RaiseDomainWeight(ds1, us1)
         IN  MergeUrls_AsNew([domain_state |-> ds2,
                              url_states |-> Append(acc.url_states, <<urls[i].url, us1>>)],
                             shs, domain, urls, i + 1)

\* The loop over the urls of one domain: acc is [domain_state, url_states].
RECURSIVE MergeUrls(_, _, _, _, _)
MergeUrls(acc, shs, domain, urls, i) ==
    IF i > Len(urls) THEN acc
    ELSE LET got == DbGet(shs, domain, urls[i].url)
             ds1 == IF got = None
                    THEN [acc.domain_state EXCEPT !.total_urls = @ + 1]
                    ELSE acc.domain_state
             us0 == UnwrapOrDefault(got, DefaultUrlState)
             us1 == IF urls[i].different_domain THEN [us0 EXCEPT !.weight = @ + 1] ELSE us0
             ds2 == RaiseDomainWeight(ds1, us1)
         IN  MergeUrls([domain_state |-> ds2,
                        url_states |-> Append(acc.url_states, <<urls[i].url, us1>>)],
                       shs, domain, urls, i + 1)

\* MergeDomain that stores every domain it touches as Pending.
MergeDomain_ResetStatus(st, domain, urls, read) ==
    LET got == KvGet(st.domain_state, domain)
        created == KvPut(st.domain_state, domain,
                         [weight |-> UnwrapOrDefault(got, DefaultDomainState).weight,
                          status |-> "Pending",
                          total_urls |-> UnwrapOrDefault(got, DefaultDomainState).total_urls])
        acc == MergeUrls([domain_state |-> created[domain], url_states |-> <<>>],
                         st.shards, domain, urls, 1)
    IN  [st EXCEPT !.shards = DbPutBatch(st.shards, domain, acc.url_states, read),
                   !.domain_state = KvPut(created, domain, acc.domain_state)]

\* One turn of the serial loop of insert_urls.
MergeDomain(st, domain, urls, read) ==
    LET got == KvGet(st.domain_state, domain)
        created == IF got = None
                   THEN KvPut(st.domain_state, domain,
                              [weight |-> 0, status |-> "Pending", total_urls |-> 0])
                   ELSE st.domain_state
        acc == MergeUrls([domain_state |-> created[domain], url_states |-> <<>>],
                         st.shards, domain, urls, 1)
    IN  [st EXCEPT !.shards = DbPutBatch(st.shards, domain, acc.url_states, read),
                   !.domain_state = KvPut(created, domain, acc.domain_state)]

RECURSIVE MergeLoop(_, _, _, _, _)
MergeLoop(st, nonempty_domains, domains, order, i) ==
    IF i > Len(order) THEN {[st |-> st, ret |-> nonempty_domains]}
    ELSE UNION { MergeLoop(MergeDomain(st, order[i], domains[order[i]], read),
                           IF domains[order[i]] # <<>>
                           THEN nonempty_domains \cup {order[i]} ELSE nonempty_domains,
                           domains, order, i + 1) :
                    read \in {r \in SizeReads : ReadPossible(st.shards, r)} }

\* CrawlDb::insert_urls: the outcomes are [st, ret].
insert_urls(st, responses) ==
    UNION { LET fan == FanOut(<<>>, st.redirects, ops, 1) IN
            UNION { MergeLoop([st EXCEPT !.redirects = fan.redirects], {}, fan.domains, order, 1) :
                       order \in Perms(DOMAIN fan.domains) } :
            ops \in Interleavings([r \in 1..Len(responses) |-> FanOps(responses[r])]) }

(***************************************************************************)
(* The frontier: any sequence of calls on a CrawlDb opened on a new path.  *)
(***************************************************************************)
WsIdle ==
    /\ ws_stream = <<>>
    /\ ws_k = 0
    /\ ws_heap = <<>>
    /\ ws_pos = 0
    /\ ws_out = <<>>
    /\ ws_drawn = <<>>

DbEmpty ==
    /\ domain_state = <<>>
    /\ shards = <<NewShard>>
    /\ redirects = <<>>
    /\ last = [op |-> "open", args |-> <<>>, ret |-> <<>>, pre |-> <<>>,
               prev |-> [op |-> "none", args |-> <<>>, ret |-> <<>>]]
    /\ calls = 0
    /\ written = <<>>
    /\ disk_over = FALSE
    /\ urls_dir = "open"
    /\ handed = <<>>

St == [domain_state |-> domain_state, shards |-> shards, redirects |-> redirects]

Init ==
    /\ DbEmpty
    /\ WsIdle

WsUnchanged == UNCHANGED <<ws_stream, ws_k, ws_heap, ws_pos, ws_out, ws_drawn>>

CanCall == calls < MaxCalls

\* The call made by a step: every call leaves its record in last.
Record(op, args, ret, st) ==
    /\ calls' = calls + 1
    /\ domain_state' = st.domain_state
    /\ shards' = st.shards
    /\ redirects' = st.redirects
    /\ last' = [op |-> op, args |-> args, ret |-> ret, pre |-> St,
                prev |-> [op |-> last.op, args |-> last.args, ret |-> last.ret]]
    /\ WsUnchanged
    /\ UNCHANGED <<written, disk_over, urls_dir, handed>>

InsertSeedUrls ==
    /\ CanCall
    /\ \E urls \in SeqsUpTo(Urls, 1, MaxSeedLen) :
         \E o \in insert_seed_urls(St, urls) :
           Record("insert_seed_urls", <<urls>>, <<>>, o)

\* The responses given to insert_urls.
MaxDiscovered == 1   \* a response lists at most this many discovered urls
UrlResponses == {Redirected(1, v) : v \in Urls \ {1}}
IngestInputs ==
    {<<JobResponse(d, urls, rs)>> :
        d \in Domains, urls \in SeqsUpTo(Urls, 0, MaxDiscovered),
        rs \in SeqsUpTo(UrlResponses, 0, 1)}

InsertUrls ==
    /\ CanCall
    /\ \E responses \in IngestInputs :
         \E o \in insert_urls(St, responses) :
           Record("insert_urls", <<responses>>, o.ret, o.st)

SetDomainStatus ==
    /\ CanCall
    /\ \E domain \in Domains, status \in DomainStatus :
           Record("set_domain_status", <<domain, status>>, <<>>,
                  set_domain_status(St, domain, status))

SampleDomains ==
    /\ CanCall
    /\ \E num_jobs \in 0..MaxSample :
         \E o \in sample_domains(St, num_jobs) :
           Record("sample_domains", <<num_jobs>>, o.ret, o.st)

PrepareJobs ==
    /\ CanCall
    /\ \E domains \in SeqsUpTo(Domains, 1, MaxJobDomains), urls_per_job \in 0..MaxSample :
         \E o \in prepare_jobs(St, domains, urls_per_job) :
           Record("prepare_jobs", <<domains, urls_per_job, o.pending>>, o.ret, o.st)

Next ==
    \/ InsertSeedUrls
    \/ InsertUrls
    \/ SetDomainStatus
    \/ SampleDomains
    \/ PrepareJobs

Spec == Init /\ [][Next]_vars

(***************************************************************************)
(* weighted_sample on its own, one stream item per step.  The items are    *)
(* (index, value) pairs as in tests::sampling.                             *)
(***************************************************************************)
ItemVals == 1..2

SamplerInit ==
    /\ DbEmpty
    /\ \E L \in 0..MaxStream :
         \E vals \in [1..L -> ItemVals] :
            ws_stream = [i \in 1..L |-> <<i, vals[i]>>]
    /\ ws_k \in 0..MaxK
    /\ ws_heap = <<>>
    /\ ws_pos = 0
    /\ ws_out = <<>>
    /\ ws_drawn = <<>>

WsDone == ws_pos = Len(ws_stream) + 1

WsStep ==
    /\ ws_pos < Len(ws_stream)
    /\ \E priority \in Priorities :
         /\ ws_heap' = SampleStep(ws_heap, ws_stream[ws_pos + 1], priority, ws_k)
         /\ ws_drawn' = Append(ws_drawn, priority)
    /\ ws_pos' = ws_pos + 1
    /\ UNCHANGED <<domain_state, shards, redirects, last, calls, ws_stream, ws_k, ws_out,
                   written, disk_over, urls_dir, handed>>

WsReturn ==
    /\ ws_pos = Len(ws_stream)
    /\ ws_out' = HeapItems(ws_heap)
    /\ ws_pos' = ws_pos + 1
    /\ UNCHANGED <<domain_state, shards, redirects, last, calls, ws_stream, ws_k, ws_heap,
                   ws_drawn, written, disk_over, urls_dir, handed>>

SamplerNext == WsStep \/ WsReturn

SpecSampler == SamplerInit /\ [][SamplerNext]_vars

(***************************************************************************)
(* Ingest on its own: calls of insert_urls on a CrawlDb opened on a new    *)
(* path, with one response that lists up to MaxManyDiscovered urls and may *)
(* carry a redirect, or with two responses of at most one url each.        *)
(***************************************************************************)
MaxManyCalls == 2        \* insert_urls is called at most this many times
MaxManyDiscovered == 2   \* a single response lists at most this many discovered urls

ManyInputs ==
    {<<JobResponse(d, urls, rs)>> :
        d \in Domains, urls \in SeqsUpTo(Urls, 0, MaxManyDiscovered),
        rs \in {<<>>, <<Redirected(1, 2)>>}}
    \cup {<<JobResponse(d1, urls1, <<>>), JobResponse(d2, urls2, <<>>)>> :
            d1 \in Domains, urls1 \in SeqsUpTo(Urls, 0, 1),
            d2 \in Domains, urls2 \in SeqsUpTo(Urls, 0, 1)}

InsertManyUrls ==
    /\ calls < MaxManyCalls
    /\ \E responses \in ManyInputs :
         \E o \in insert_urls(St, responses) :
           Record("insert_urls", <<responses>>, o.ret, o.st)

IngestNext == InsertManyUrls

SpecIngest == Init /\ [][IngestNext]_vars

(***************************************************************************)
(* UrlStateDb on its own: any sequence of put_batch calls on a url store   *)
(* opened on a new path, with any domain and any urls in a batch.  The     *)
(* size of the newest shard's SST files is part of the state: a write can  *)
(* bring it over the threshold, a put_batch reads it anew or takes the     *)
(* value cached less than 11 s ago.                                        *)
(***************************************************************************)
MaxBatch == 2        \* a batch holds at most this many (url, state) pairs
MaxDbUrls == 2       \* the urls put into the url store on its own are 1..MaxDbUrls

PutStates == {[weight |-> 0, status |-> "Pending"], [weight |-> 1, status |-> "Crawling"]}
DbEntries == {<<u, state>> : u \in 1..MaxDbUrls, state \in PutStates}

\* What approximate_size_bytes can return when the true size is, or is not, over.
DiskReads(over) == {"cached", IF over THEN "over" ELSE "under"}

\* Whether the SST files of the newest shard can be over the threshold after a write:
\* a size over the threshold stays over, an empty shard is under, and the model lets
\* no shard grow over once MaxShards exist.
DiskAfter(shs, over, rolled) ==
    {b \in BOOLEAN : /\ b => (Len(shs) < MaxShards /\ DOMAIN shs[Len(shs)].db # {})
                     /\ (over /\ ~rolled) => b}

\* The state last put under each key, after the puts of the batch in their order.
RECURSIVE PutAll(_, _, _, _)
PutAll(w, domain, urls, i) ==
    IF i > Len(urls) THEN w
    ELSE PutAll(KvPut(w, Key(domain, urls[i][1]), urls[i][2]), domain, urls, i + 1)

UrlDbPutBatch ==
    /\ CanCall
    /\ \E domain \in Domains, urls \in SeqsUpTo(DbEntries, 0, MaxBatch) :
         \E read \in DiskReads(disk_over) :
            LET shs == DbPutBatch(shards, domain, urls, read) IN
            /\ shards' = shs
            /\ written' = PutAll(written, domain, urls, 1)
            /\ disk_over' \in DiskAfter(shs, disk_over, Len(shs) > Len(shards))
            /\ last' = [op |-> "put_batch", args |-> <<domain, urls, read>>, ret |-> <<>>,
                        pre |-> [shards |-> shards, written |-> written, disk_over |-> disk_over],
                        prev |-> [op |-> last.op, args |-> last.args, ret |-> last.ret]]
    /\ calls' = calls + 1
    /\ UNCHANGED <<domain_state, redirects, urls_dir, handed>>
    /\ WsUnchanged

UrlDbNext == UrlDbPutBatch

SpecUrlDb == Init /\ [][UrlDbNext]_vars

(***************************************************************************)
(* The hand-out of urls: calls of insert_urls with one discovered url,     *)
(* insert_seed_urls of a url that is not stored yet, set_domain_status,    *)
(* sample_domains and prepare_jobs, with a count of how often each url was *)
(* put into a job.                                                         *)
(***************************************************************************)
MaxJobsCalls == 4    \* the hand-out takes at most this many calls

\* How many times url occurs in the queues of jobs.
RECURSIVE CountIn(_, _)
CountIn(jobs, url) ==
    IF jobs = <<>> THEN 0
    ELSE Cardinality({i \in 1..Len(Head(jobs).urls) : Head(jobs).urls[i] = url})
         + CountIn(Tail(jobs), url)

HandedCount(h, url) == UnwrapOrDefault(KvGet(h, url), 0)

HandOut(h, jobs) ==
    LET got == {u \in Urls : CountIn(jobs, u) > 0} IN
    [u \in (DOMAIN h) \cup got |-> HandedCount(h, u) + CountIn(jobs, u)]

JobsRecord(op, args, ret, st, h) ==
    /\ calls' = calls + 1
    /\ domain_state' = st.domain_state
    /\ shards' = st.shards
    /\ redirects' = st.redirects
    /\ last' = [op |-> op, args |-> args, ret |-> ret, pre |-> St,
                prev |-> [op |-> last.op, args |-> last.args, ret |-> last.ret]]
    /\ handed' = h
    /\ WsUnchanged
    /\ UNCHANGED <<written, disk_over, urls_dir>>

JobsCanCall == calls < MaxJobsCalls

JobsIngest ==
    /\ JobsCanCall
    /\ \E d \in Domains, u \in Urls :
         \E o \in insert_urls(St, <<JobResponse(d, <<u>>, <<>>)>>) :
           JobsRecord("insert_urls", <<<<JobResponse(d, <<u>>, <<>>)>>>>, o.ret, o.st, handed)

JobsSeedNew ==
    /\ JobsCanCall
    /\ \E u \in Urls :
         /\ DbGet(shards, DomainOf(u), u) = None
         /\ \E o \in insert_seed_urls(St, <<u>>) :
               JobsRecord("insert_seed_urls", <<<<u>>>>, <<>>, o, handed)

JobsSetDomainStatus ==
    /\ JobsCanCall
    /\ \E domain \in Domains, status \in DomainStatus :
           JobsRecord("set_domain_status", <<domain, status>>, <<>>,
                      set_domain_status(St, domain, status), handed)

JobsSampleDomains ==
    /\ JobsCanCall
    /\ \E num_jobs \in 1..MaxSample :
         \E o \in sample_domains(St, num_jobs) :
           JobsRecord("sample_domains", <<num_jobs>>, o.ret, o.st, handed)

JobsPrepare ==
    /\ JobsCanCall
    /\ \E domains \in SeqsUpTo(Domains, 1, MaxJobDomains), urls_per_job \in 1..MaxSample :
         \E o \in prepare_jobs(St, domains, urls_per_job) :
           JobsRecord("prepare_jobs", <<domains, urls_per_job, o.pending>>, o.ret, o.st,
                      HandOut(handed, o.ret))

JobsNext ==
    \/ JobsIngest
    \/ JobsSeedNew
    \/ JobsSetDomainStatus
    \/ JobsSampleDomains
    \/ JobsPrepare

SpecJobs == Init /\ [][JobsNext]_vars

(***************************************************************************)
(* UrlStateDb::open and the calls that follow it: the directory of the url *)
(* store is missing or exists without any shard subdirectory at first; it  *)
(* is opened, written to and closed again.                                 *)
(***************************************************************************)
MaxOpenCalls == 4    \* opens, closes and put_batch calls taken together

\* UrlStateDb::open: the shards of the opened store.  An existing directory gives one
\* shard per subdirectory, in the order of their names (creation time first); the size
\* of each is read at the open.
UrlStateDbOpen(dir, subdirs, over) ==
    IF dir # "missing"
    THEN [i \in 1..Len(subdirs) |->
             [subdirs[i] EXCEPT !.approx_over = IF i = Len(subdirs) THEN over ELSE @]]
    ELSE <<NewShard>>

OpenInit ==
    /\ domain_state = <<>>
    /\ shards = <<>>
    /\ redirects = <<>>
    /\ last = [op |-> "none", args |-> <<>>, ret |-> <<>>, pre |-> <<>>,
               prev |-> [op |-> "none", args |-> <<>>, ret |-> <<>>]]
    /\ calls = 0
    /\ written = <<>>
    /\ disk_over = FALSE
    /\ urls_dir \in {"missing", "closed"}
    /\ handed = <<>>
    /\ WsIdle

OpenRecord(op, args, ret) ==
    /\ calls' = calls + 1
    /\ last' = [op |-> op, args |-> args, ret |-> ret,
                pre |-> [shards |-> shards, written |-> written, disk_over |-> disk_over],
                prev |-> [op |-> last.op, args |-> last.args, ret |-> last.ret]]
    /\ UNCHANGED <<domain_state, redirects, handed>>
    /\ WsUnchanged

UrlDbOpen ==
    /\ calls < MaxOpenCalls
    /\ urls_dir # "open"
    /\ shards' = UrlStateDbOpen(urls_dir, shards, disk_over)
    /\ urls_dir' = "open"
    /\ OpenRecord("open", <<urls_dir>>, "Ok")
    /\ UNCHANGED <<written, disk_over>>

\* The UrlStateDb is dropped; its shards stay on disk.
UrlDbClose ==
    /\ calls < MaxOpenCalls
    /\ urls_dir = "open"
    /\ urls_dir' = "closed"
    /\ OpenRecord("close", <<>>, <<>>)
    /\ UNCHANGED <<shards, written, disk_over>>

\* put_batch on the opened store: self.shards.last_mut().unwrap() panics on an empty
\* list of shards, which unwinds through the caller and drops the store.
UrlDbPutOpened ==
    /\ calls < MaxOpenCalls
    /\ urls_dir = "open"
    /\ \E domain \in Domains, urls \in SeqsUpTo(DbEntries, 0, 1) :
         IF shards = <<>>
         THEN /\ urls_dir' = "closed"
              /\ OpenRecord("put_batch", <<domain, urls, "none">>, "panic")
              /\ UNCHANGED <<shards, written, disk_over>>
         ELSE \E read \in DiskReads(disk_over) :
                LET shs == DbPutBatch(shards, domain, urls, read) IN
                /\ shards' = shs
                /\ written' = PutAll(written, domain, urls, 1)
                /\ disk_over' \in DiskAfter(shs, disk_over, Len(shs) > Len(shards))
                /\ OpenRecord("put_batch", <<domain, urls, read>>, "Ok")
                /\ UNCHANGED urls_dir

OpenNext ==
    \/ UrlDbOpen
    \/ UrlDbClose
    \/ UrlDbPutOpened

SpecOpen == OpenInit /\ [][OpenNext]_vars

(***************************************************************************)
(* Failures.  A stored record may not decode, and a call on a store may    *)
(* return an error; the result of an operation is Ok with a value, Err, or *)
(* a panic.  One record is corrupted after a first ingest, and an ingest   *)
(* or a read follows.                                                      *)
(***************************************************************************)
MaxFaultCalls == 2   \* CrawlDb calls made around the corruption of a record

ResOk(v) == [kind |-> "Ok", val |-> v]
ResErr == [kind |-> "Err", val |-> <<>>]
ResPanic == [kind |-> "Panic", val |-> <<>>]

\* Records that bincode::deserialize rejects: a variant index that names no status,
\* a range record cut short, bytes that are no url.
CorruptUrlState == <<0, 9>>
CorruptDomainState == [weight |-> 0, status |-> "Undecodable", total_urls |-> 0]
CorruptRange == [start |-> <<>>, end |-> <<>>]
CorruptUrl == 0

UrlStateDecodes(state_bytes) == state_bytes[2] \in 0..3
DomainStateDecodes(value_bytes) == value_bytes.status \in DomainStatus
RangeDecodes(range_bytes) == range_bytes.start # <<>>
UrlDecodes(redirect_bytes) == redirect_bytes \in Urls

\* UrlStateDbShard::get: the deserialized state is unwrapped.
TryShardGet(shard, domain, url) ==
    LET state_bytes == KvGet(shard.db, Key(domain, url)) IN
    IF state_bytes = None THEN ResOk(None)
    ELSE IF UrlStateDecodes(state_bytes[1]) THEN ResOk(Some(Deserialize(state_bytes[1])))
    ELSE ResPanic

\* UrlStateDb::get: the shards newest first, up to the first that holds the key.
RECURSIVE TryDbGetFrom(_, _, _, _)
TryDbGetFrom(shs, i, domain, url) ==
    IF i = 0 THEN ResOk(None)
    ELSE LET r == TryShardGet(shs[i], domain, url) IN
         IF r.kind # "Ok" THEN r
         ELSE IF r.val # None THEN r
         ELSE TryDbGetFrom(shs, i - 1, domain, url)

TryDbGet(shs, domain, url) == TryDbGetFrom(shs, Len(shs), domain, url)

\* DomainStateDb::get
TryDomainGet(ds, domain) ==
    LET value_bytes == KvGet(ds, domain) IN
    IF value_bytes = None THEN ResOk(None)
    ELSE IF DomainStateDecodes(value_bytes[1]) THEN ResOk(value_bytes) ELSE ResErr

\* RangesDb::get
TryRangeGet(shard, domain) ==
    LET range_bytes == KvGet(shard.ranges, domain) IN
    IF range_bytes = None THEN ResOk(None)
    ELSE IF RangeDecodes(range_bytes[1]) THEN ResOk(range_bytes) ELSE ResErr

\* RedirectDb::get
TryRedirectGet(redir, from) ==
    LET redirect_bytes == KvGet(redir, from) IN
    IF redirect_bytes = None THEN ResOk(None)
    ELSE IF UrlDecodes(redirect_bytes[1]) THEN ResOk(redirect_bytes) ELSE ResErr

\* UrlStateDbShard::get_all_urls: the range record is read with ?, a record of the
\* iteration that does not decode is filtered out.
TryShardGetAllUrls(shard, domain) ==
    LET range == TryRangeGet(shard, domain) IN
    IF range.kind # "Ok" THEN ResErr
    ELSE IF range.val = None THEN ResOk(<<>>)
    ELSE LET keys == SortedKeys({k \in DOMAIN shard.db :
                                    /\ KeyLeq(range.val[1].start, k)
                                    /\ KeyLeq(k, range.val[1].end)
                                    /\ UrlStateDecodes(shard.db[k])})
         IN  ResOk([i \in 1..Len(keys) |-> <<keys[i][2], Deserialize(shard.db[keys[i]])>>])

\* UrlStateDb::get_all_urls
RECURSIVE TryDbGetAllFrom(_, _, _, _)
TryDbGetAllFrom(res, shs, i, domain) ==
    IF i > Len(shs) THEN ResOk(res)
    ELSE LET r == TryShardGetAllUrls(shs[i], domain) IN
         IF r.kind # "Ok" THEN r
         ELSE TryDbGetAllFrom(InsertAll(res, r.val, 1), shs, i + 1, domain)

TryDbGetAllUrls(shs, domain) == TryDbGetAllFrom(<<>>, shs, 1, domain)

\* DomainStateDb::iter: a record that does not decode is filtered out.
DomainIter(ds) ==
    LET keys == Ascending({d \in DOMAIN ds : DomainStateDecodes(ds[d])}) IN
    [i \in 1..Len(keys) |-> <<keys[i], ds[keys[i]]>>]

\* Where a store call of insert_urls returns an error in the turn of one domain:
\* domain_state.get, the domain_state.put of a new domain, the first urls.get, the
\* urls.put_batch before it has written, the ranges.put that ends it, or the last
\* domain_state.put.
FaultPoints == {"none", "ds_get", "ds_put_new", "url_get", "put_batch", "ranges_put", "ds_put"}
NoFault == [point |-> "none", at |-> 1, redirect_fails |-> FALSE]
FaultPlans ==
    {plan \in [point : FaultPoints, at : 1..NumDomains, redirect_fails : BOOLEAN] :
        plan.point = "none" => plan.at = 1}

Outcome(st, kind, failed) == [st |-> st, kind |-> kind, failed |-> failed]

\* One turn of the serial loop of insert_urls with the store call at point failing
\* and with records that may not decode.
FaultyMergeDomain(st, domain, urls, read, point) ==
    LET got == TryDomainGet(st.domain_state, domain) IN
    IF point = "ds_get" THEN Outcome(st, "Err", "io")
    ELSE IF got.kind # "Ok" THEN Outcome(st, "Err", "decode")
    ELSE IF got.val = None /\ point = "ds_put_new" THEN Outcome(st, "Err", "io")
    ELSE
    LET created == IF got.val = None
                   THEN KvPut(st.domain_state, domain,
                              [weight |-> 0, status |-> "Pending", total_urls |-> 0])
                   ELSE st.domain_state
        st1 == [st EXCEPT !.domain_state = created]
    IN  IF urls # <<>> /\ point = "url_get" THEN Outcome(st1, "Err", "io")
        ELSE IF \E i \in 1..Len(urls) : TryDbGet(st.shards, domain, urls[i].url).kind = "Panic"
        THEN Outcome(st1, "Panic", "decode")
        ELSE
        LET acc == MergeUrls([domain_state |-> created[domain], url_states |-> <<>>],
                             st.shards, domain, urls, 1)
            n == Len(st.shards)
            sized == [st.shards EXCEPT ![n].approx_over = ApproxOver(st.shards[n], read)]
            opened == IF sized[n].approx_over THEN Append(sized, NewShard) ELSE sized
            range == TryRangeGet(opened[Len(opened)], domain)
            put == DbPutBatch(st.shards, domain, acc.url_states, read)
        IN  IF point = "put_batch" THEN Outcome(st1, "Err", "io")
            ELSE IF range.kind # "Ok"
            THEN Outcome([st1 EXCEPT !.shards = opened], "Err", "decode")
            ELSE IF point = "ranges_put" /\ (acc.url_states # <<>> \/ range.val # None)
            THEN Outcome([st1 EXCEPT !.shards =
                             [put EXCEPT ![Len(put)].ranges = opened[Len(opened)].ranges]],
                         "Err", "io")
            ELSE IF point = "ds_put" THEN Outcome([st1 EXCEPT !.shards = put], "Err", "io")
            ELSE Outcome([st1 EXCEPT !.shards = put,
                                     !.domain_state = KvPut(created, domain, acc.domain_state)],
                         "Ok", "none")

\* The serial loop; done holds the domains whose turn has ended without a failure.
RECURSIVE FaultyMergeLoop(_, _, _, _, _, _, _)
FaultyMergeLoop(st, nonempty_domains, done, domains, order, i, plan) ==
    IF i > Len(order)
    THEN {[st |-> st, kind |-> "Ok", failed |-> "none", ret |-> nonempty_domains, done |-> done]}
    ELSE UNION {
           LET o == FaultyMergeDomain(st, order[i], domains[order[i]], read,
                                      IF plan.at = i THEN plan.point ELSE "none")
           IN  IF o.kind # "Ok"
               THEN {[st |-> o.st, kind |-> o.kind, failed |-> o.failed, ret |-> {}, done |-> done]}
               ELSE FaultyMergeLoop(o.st,
                                    IF domains[order[i]] # <<>>
                                    THEN nonempty_domains \cup {order[i]} ELSE nonempty_domains,
                                    done \cup {order[i]}, domains, order, i + 1, plan) :
           read \in {r \in SizeReads : ReadPossible(st.shards, r)} }

\* CrawlDb::insert_urls under the plan: a failed redirects.put is dropped by .ok().
FaultyInsertUrls(st, responses, plan) ==
    UNION { LET fan == FanOut(<<>>, st.redirects, ops, 1)
                st0 == IF plan.redirect_fails THEN st ELSE [st EXCEPT !.redirects = fan.redirects]
            IN  UNION { FaultyMergeLoop(st0, {}, {}, fan.domains, order, 1, plan) :
                           order \in Perms(DOMAIN fan.domains) } :
            ops \in Interleavings([r \in 1..Len(responses) |-> FanOps(responses[r])]) }

FaultInputs ==
    {<<JobResponse(d, urls, rs)>> :
        d \in Domains, urls \in {<<>>, <<1>>, <<2>>, <<1, 2>>},
        rs \in {<<>>, <<Redirected(1, 2)>>}}

AllDecode ==
    /\ \A d \in DOMAIN domain_state : DomainStateDecodes(domain_state[d])
    /\ \A u \in DOMAIN redirects : UrlDecodes(redirects[u])
    /\ \A i \in 1..Len(shards) :
          /\ \A k \in DOMAIN shards[i].db : UrlStateDecodes(shards[i].db[k])
          /\ \A d \in DOMAIN shards[i].ranges : RangeDecodes(shards[i].ranges[d])

FaultsRecord(op, args, ret, st) ==
    /\ calls' = calls + 1
    /\ domain_state' = st.domain_state
    /\ shards' = st.shards
    /\ redirects' = st.redirects
    /\ last' = [op |-> op, args |-> args, ret |-> ret, pre |-> St,
                prev |-> [op |-> last.op, args |-> <<>>, ret |-> <<>>]]
    /\ WsUnchanged
    /\ UNCHANGED <<written, disk_over, urls_dir, handed>>

\* The first call is an ingest without failure; a later one follows any plan.
FaultsIngest ==
    /\ calls < MaxFaultCalls
    /\ \E responses \in FaultInputs, plan \in (IF calls = 0 THEN {NoFault} ELSE FaultPlans) :
         \E o \in FaultyInsertUrls(St, responses, plan) :
            FaultsRecord("insert_urls", <<responses, plan>>,
                         [kind |-> o.kind, val |-> o.ret, done |-> o.done, failed |-> o.failed],
                         o.st)

\* One stored record is overwritten with bytes that do not decode.
FaultsCorrupt ==
    /\ calls >= 1
    /\ calls < MaxFaultCalls
    /\ AllDecode
    /\ \/ \E d \in DOMAIN domain_state :
            /\ domain_state' = [domain_state EXCEPT ![d] = CorruptDomainState]
            /\ UNCHANGED <<shards, redirects>>
       \/ \E i \in 1..Len(shards) : \E k \in DOMAIN shards[i].db :
            /\ shards' = [shards EXCEPT ![i].db[k] = CorruptUrlState]
            /\ UNCHANGED <<domain_state, redirects>>
       \/ \E i \in 1..Len(shards) : \E d \in DOMAIN shards[i].ranges :
            /\ shards' = [shards EXCEPT ![i].ranges[d] = CorruptRange]
            /\ UNCHANGED <<domain_state, redirects>>
       \/ \E u \in DOMAIN redirects :
            /\ redirects' = [redirects EXCEPT ![u] = CorruptUrl]
            /\ UNCHANGED <<domain_state, shards>>
    /\ last' = [op |-> "corrupt", args |-> <<>>, ret |-> <<>>, pre |-> St,
                prev |-> [op |-> last.op, args |-> <<>>, ret |-> <<>>]]
    /\ WsUnchanged
    /\ UNCHANGED <<calls, written, disk_over, urls_dir, handed>>

CanRead == calls >= 1 /\ calls < MaxFaultCalls

FaultsGetUrlState ==
    /\ CanRead
    /\ \E url \in Urls :
         FaultsRecord("get_url_state", <<DomainOf(url), url>>,
                      TryDbGet(shards, DomainOf(url), url), St)

FaultsGetDomainState ==
    /\ CanRead
    /\ \E domain \in Domains :
         FaultsRecord("get_domain_state", <<domain>>, TryDomainGet(domain_state, domain), St)

FaultsGetRange ==
    /\ CanRead
    /\ \E i \in 1..Len(shards), domain \in Domains :
         FaultsRecord("get_range", <<i, domain>>, TryRangeGet(shards[i], domain), St)

FaultsGetRedirect ==
    /\ CanRead
    /\ \E from \in Urls :
         FaultsRecord("get_redirect", <<from>>, TryRedirectGet(redirects, from), St)

FaultsGetAllUrls ==
    /\ CanRead
    /\ \E domain \in Domains :
         FaultsRecord("get_all_urls", <<domain>>, TryDbGetAllUrls(shards, domain), St)

FaultsIterDomains ==
    /\ CanRead
    /\ FaultsRecord("iter_domains", <<>>, ResOk(DomainIter(domain_state)), St)

FaultsNext ==
    \/ FaultsIngest
    \/ FaultsCorrupt
    \/ FaultsGetUrlState
    \/ FaultsGetDomainState
    \/ FaultsGetRange
    \/ FaultsGetRedirect
    \/ FaultsGetAllUrls
    \/ FaultsIterDomains

SpecFaults == Init /\ [][FaultsNext]_vars

(***************************************************************************)
(* Properties of the url store, under SpecUrlDb.                           *)
(***************************************************************************)
Put == last.op = "put_batch"
PutDomain == last.args[1]
PutUrls == last.args[2]
PutRead == last.args[3]

DbKeys == {Key(d, u) : d \in Domains, u \in 1..MaxDbUrls}

\* C12: a get of a key returns exactly the state of the latest put_batch write of
\* that key, wherever the shards hold older states of it and whenever a shard was
\* rolled; a key never written is not found.
C12_RoundTrip ==
    \A k \in DbKeys : DbGet(shards, k[1], k[2]) = KvGet(written, k)

\* A key whose older state lies in the older shard, its latest state in the newest.
C12_Witness ==
    /\ Len(shards) = 2
    /\ \E k \in DOMAIN written :
        /\ k \in DOMAIN shards[1].db
        /\ k \in DOMAIN shards[2].db
        /\ Deserialize(shards[1].db[k]) # written[k]

\* The batch of the last put_batch is in a shard made by that call, the older shards
\* are as they were, and every key reads back with the state last put under it.
RolledAndLanded ==
    /\ Len(shards) = Len(last.pre.shards) + 1
    /\ \A i \in 1..Len(last.pre.shards) :
           shards[i].db = last.pre.shards[i].db /\ shards[i].ranges = last.pre.shards[i].ranges
    /\ shards[Len(shards)] = ShardPutBatch(NewShard, PutDomain, PutUrls)
    /\ \A k \in DOMAIN written : DbGet(shards, k[1], k[2]) = Some(written[k])

\* C13 as stated: once the size of the newest shard is over the threshold, the next
\* put_batch makes a new shard before it writes and its batch lands there, and reads
\* after the roll return the state last written for every url.
C13_AsStated ==
    (Put /\ last.pre.disk_over) => RolledAndLanded

\* C13 amended: once the size of the newest shard is over the threshold, the next
\* put_batch that reads the size anew, its cached size having been read 11 s or more
\* before, makes a new shard before it writes and its batch lands there, and reads
\* after the roll return the state last written for every url.
C13_RollOnFreshRead ==
    (Put /\ last.pre.disk_over /\ PutRead # "cached") => RolledAndLanded

\* A roll whose batch put a new state for a url that the older shard holds.
C13_Witness ==
    /\ Put
    /\ last.pre.disk_over
    /\ PutRead = "over"
    /\ \E i \in 1..Len(PutUrls) :
        /\ Key(PutDomain, PutUrls[i][1]) \in DOMAIN last.pre.written
        /\ last.pre.written[Key(PutDomain, PutUrls[i][1])] # written[Key(PutDomain, PutUrls[i][1])]

\* C14: get_all_urls(d) returns exactly the urls ever written under d, each once and
\* with the state last put under it, and no url written only under another domain; a
\* shard without a range record for d contributes nothing.
C14_GetAllUrls ==
    \A d \in Domains :
        DbGetAllUrls(shards, d) =
            [u \in {x \in 1..MaxDbUrls : Key(d, x) \in DOMAIN written} |-> written[Key(d, u)]]

\* Two shards, the older without a range record for d; d holds two urls, one of them
\* also written, with another state, under the other domain in both shards.
C14_Witness ==
    /\ Len(shards) = 2
    /\ \E d \in Domains, o \in Domains, u \in 1..MaxDbUrls :
        /\ o # d
        /\ d \notin DOMAIN shards[1].ranges
        /\ Cardinality(DOMAIN DbGetAllUrls(shards, d)) = 2
        /\ Key(o, u) \in DOMAIN shards[1].db
        /\ Key(o, u) \in DOMAIN shards[2].db
        /\ written[Key(o, u)] # written[Key(d, u)]
        /\ Deserialize(shards[1].db[Key(o, u)]) # written[Key(o, u)]

\* The keys that the shard holds for the domain.
KeysOf(shard, d) == {k \in DOMAIN shard.db : k[1] = d}

\* C24: in every shard the range record of a domain encloses every key written for
\* the domain in that shard and no key of another domain; a put_batch only widens the
\* record: its start never rises and its end never falls.
C24_RangeEncloses ==
    /\ \A i \in 1..Len(shards), d \in Domains :
        /\ KeysOf(shards[i], d) # {} => d \in DOMAIN shards[i].ranges
        /\ d \in DOMAIN shards[i].ranges =>
            /\ \A k \in KeysOf(shards[i], d) :
                   KeyLeq(shards[i].ranges[d].start, k) /\ KeyLeq(k, shards[i].ranges[d].end)
            /\ \A k \in DOMAIN shards[i].db :
                   (KeyLeq(shards[i].ranges[d].start, k) /\ KeyLeq(k, shards[i].ranges[d].end))
                       => k[1] = d
    /\ Put =>
        \A i \in 1..Len(last.pre.shards) : \A d \in DOMAIN last.pre.shards[i].ranges :
            /\ d \in DOMAIN shards[i].ranges
            /\ KeyLeq(shards[i].ranges[d].start, last.pre.shards[i].ranges[d].start)
            /\ KeyLeq(last.pre.shards[i].ranges[d].end, shards[i].ranges[d].end)

\* A put_batch that lowered the start of the record of a domain in a shard that
\* also holds a record of the other domain.
C24_Witness ==
    /\ Put
    /\ \E i \in 1..Len(last.pre.shards) : \E d \in DOMAIN last.pre.shards[i].ranges :
        /\ KeyLess(shards[i].ranges[d].start, last.pre.shards[i].ranges[d].start)
        /\ \E o \in DOMAIN shards[i].ranges : o # d

\* C25: put_batch writes into the newest shard only: the url store and the range
\* records of every older shard are as before, the list of shards grows by at most
\* one shard, at its end, and only when the reported size of the newest shard is over
\* MAX_URL_DB_SIZE_BYTES.
C25_PutBatchFrame ==
    Put =>
        LET n == Len(last.pre.shards)
            rolled == Len(shards) = n + 1
        IN  /\ Len(shards) = n \/ rolled
            /\ \A i \in 1..(Len(shards) - 1) :
                   /\ shards[i].db = last.pre.shards[i].db
                   /\ shards[i].ranges = last.pre.shards[i].ranges
            /\ rolled <=> ApproxOver(last.pre.shards[n], PutRead)
            /\ LET target == IF rolled THEN NewShard ELSE last.pre.shards[n]
                    put == ShardPutBatch(target, PutDomain, PutUrls)
                IN  /\ shards[Len(shards)].db = put.db
                    /\ shards[Len(shards)].ranges = put.ranges

\* A batch written into the second of two shards, without a roll, for a key that the
\* first shard holds too.
C25_Witness ==
    /\ Put
    /\ Len(last.pre.shards) = 2
    /\ \E i \in 1..Len(PutUrls) : Key(PutDomain, PutUrls[i][1]) \in DOMAIN shards[1].db

(***************************************************************************)
(* Properties of UrlStateDb::open, under SpecOpen.                         *)
(***************************************************************************)
\* C26 as stated: an opened url store holds at least one shard, also when it was
\* opened on a directory that exists without any shard subdirectory, and no put_batch
\* on it finds the list of shards empty.
C26_OpenedHasShard ==
    /\ urls_dir = "open" => Len(shards) >= 1
    /\ Put => last.ret # "panic"

(***************************************************************************)
(* Properties of weighted_sample, under SpecSampler.                       *)
(***************************************************************************)
InSeq(x, seq) == \E i \in 1..Len(seq) : seq[i] = x

\* C5: for every stream of length L and every k >= 0, weighted_sample returns exactly
\* min(L, k) items, each an element of the stream, no stream position twice, and the
\* heap never holds more than k items.
C5_SampleSize ==
    /\ Len(ws_heap) <= ws_k
    /\ WsDone =>
        /\ Len(ws_out) = Min(Len(ws_stream), ws_k)
        /\ \A i \in 1..Len(ws_out) : InSeq(ws_out[i], ws_stream)
        /\ \A i, j \in 1..Len(ws_out) : ws_out[i][1] = ws_out[j][1] => i = j

\* A sample of a stream longer than k >= 1 in which a later item has taken a place.
C5_Witness ==
    /\ WsDone
    /\ ws_k >= 1
    /\ ws_k < Len(ws_stream)
    /\ \E i \in 1..Len(ws_out) : ws_out[i][1] > ws_k

\* The number of the first n drawn priorities that equal p, and that are below p.
DrawnEq(n, p) == Cardinality({i \in 1..n : ws_drawn[i] = p})
DrawnBelow(n, p) == Cardinality({i \in 1..n : ws_drawn[i] < p})

\* How many items of priority p are among the k smallest of the first n priorities.
AmongSmallest(n, k, p) ==
    LET room == k - DrawnBelow(n, p) IN
    IF room <= 0 THEN 0 ELSE Min(DrawnEq(n, p), room)

HeapSet(heap) == {heap[i] : i \in 1..Len(heap)}

\* The heap holds items of the consumed prefix, each once and each with the priority
\* drawn for it, and their priorities are the k smallest drawn so far.
HoldsSmallest ==
    /\ \A j \in 1..Len(ws_heap) :
          \E i \in 1..Len(ws_drawn) :
             ws_heap[j] = SampledItem(ws_stream[i], ws_drawn[i])
    /\ \A i, j \in 1..Len(ws_heap) : ws_heap[i].item = ws_heap[j].item => i = j
    /\ \A p \in Priorities :
          Cardinality({j \in 1..Len(ws_heap) : ws_heap[j].priority = p})
              = AmongSmallest(Len(ws_drawn), ws_k, p)
    /\ \A j \in 1..Len(ws_heap) : ws_heap[j].priority <= ws_heap[1].priority

\* One turn of the loop: a heap that is not full takes the item; a full heap gives up
\* its maximum for an item of strictly smaller priority and is left as it is otherwise.
TurnKeepsEarlier ==
    (ws_pos' = ws_pos + 1 /\ ws_pos < Len(ws_stream)) =>
        LET new == SampledItem(ws_stream[ws_pos + 1], ws_drawn'[ws_pos + 1]) IN
        IF Len(ws_heap) < ws_k
        THEN HeapSet(ws_heap') = HeapSet(ws_heap) \cup {new}
        ELSE IF new.priority < ws_heap[1].priority
             THEN HeapSet(ws_heap') = (HeapSet(ws_heap) \ {ws_heap[1]}) \cup {new}
             ELSE ws_heap' = ws_heap

\* C27: with k >= 1, after each processed item the heap holds the k smallest of the
\* priorities drawn so far (all of them while at most k were drawn), a new item takes
\* the place of the heap's maximum only when its priority is strictly smaller, on an
\* equal priority the heap with its earlier item is kept, and the returned items are
\* those of the heap after the last item.
C27_KSmallest ==
    /\ [](ws_k >= 1 => HoldsSmallest)
    /\ [](ws_k >= 1 /\ WsDone => {ws_out[i] : i \in 1..Len(ws_out)} = {x.item : x \in HeapSet(ws_heap)})
    /\ [][ws_k >= 1 => TurnKeepsEarlier]_vars

\* A sample of two out of three items whose last item drew the priority of the
\* heap's maximum and was left out, a smaller priority being in the heap too.
C27_Witness ==
    /\ WsDone
    /\ ws_k = 2
    /\ ws_drawn = <<1, 2, 2>>
    /\ {ws_out[i][1] : i \in 1..Len(ws_out)} = {1, 2}

(***************************************************************************)
(* Properties of the frontier, under Spec.                                 *)
(***************************************************************************)
SeqToSet(seq) == {seq[i] : i \in 1..Len(seq)}

Sampled == last.op = "sample_domains"
Prepared == last.op = "prepare_jobs"
Ingested == last.op = "insert_urls"

\* insert_seed_urls([u]) was followed directly by sample_domains(k) with k >= 1.
SeedThenSample ==
    /\ Sampled
    /\ last.args[1] >= 1
    /\ last.prev.op = "insert_seed_urls"
    /\ Len(last.prev.args[1]) = 1

SeededDomain == DomainOf(last.prev.args[1][1])

NumPending(ds) == Cardinality({d \in DOMAIN ds : ds[d].status = "Pending"})

\* C1 as stated: after insert_seed_urls([u]), sample_domains(k), k >= 1, returns the
\* domain of u and leaves it CrawlInProgress, in every reachable state.
C1_AsStated ==
    SeedThenSample =>
        /\ InSeq(SeededDomain, last.ret)
        /\ domain_state[SeededDomain].status = "CrawlInProgress"

\* C1 amended: after insert_seed_urls([u]), sample_domains(k), k >= 1, returns the
\* domain of u and leaves it CrawlInProgress, when that domain is Pending after the
\* seed and k is at least the number of Pending domains.
C1_SeedThenSample ==
    (/\ SeedThenSample
     /\ last.pre.domain_state[SeededDomain].status = "Pending"
     /\ last.args[1] >= NumPending(last.pre.domain_state)) =>
        /\ InSeq(SeededDomain, last.ret)
        /\ domain_state[SeededDomain].status = "CrawlInProgress"

\* The seeded domain sampled together with another Pending domain.
C1_Witness ==
    /\ SeedThenSample
    /\ last.pre.domain_state[SeededDomain].status = "Pending"
    /\ NumPending(last.pre.domain_state) = 2
    /\ last.args[1] = 2
    /\ InSeq(SeededDomain, last.ret)

\* C2: when sample_domains is followed directly by sample_domains, no domain
\* returned by the first call is returned by the second.
C2_NoResample ==
    (Sampled /\ last.prev.op = "sample_domains") =>
        SeqToSet(last.ret) \cap SeqToSet(last.prev.ret) = {}

\* A second sample, with room for it, right after a sample that returned a domain.
C2_Witness ==
    /\ Sampled
    /\ last.prev.op = "sample_domains"
    /\ last.prev.ret # <<>>
    /\ last.args[1] >= 1

\* C3: every domain returned by sample_domains was Pending before the call and is
\* CrawlInProgress after it; no domain with another status is returned.
C3_SampledWerePending ==
    Sampled =>
        \A d \in SeqToSet(last.ret) :
            /\ d \in DOMAIN last.pre.domain_state
            /\ last.pre.domain_state[d].status = "Pending"
            /\ domain_state[d].status = "CrawlInProgress"

\* A sample with room for every domain that left out a domain that was not Pending.
C3_Witness ==
    /\ Sampled
    /\ last.ret # <<>>
    /\ last.args[1] >= NumDomains
    /\ \E d \in DOMAIN last.pre.domain_state : last.pre.domain_state[d].status # "Pending"

\* C4: sample_domains changes nothing but the status of the domains it returns.
C4_SampleFrame ==
    Sampled =>
        /\ DOMAIN domain_state = DOMAIN last.pre.domain_state
        /\ \A d \in DOMAIN domain_state :
            /\ domain_state[d].weight = last.pre.domain_state[d].weight
            /\ domain_state[d].total_urls = last.pre.domain_state[d].total_urls
            /\ ~InSeq(d, last.ret) => domain_state[d] = last.pre.domain_state[d]
        /\ shards = last.pre.shards
        /\ redirects = last.pre.redirects

\* A sample that returned a domain of positive weight and left another one, with
\* urls and a redirect in the stores.
C4_Witness ==
    /\ Sampled
    /\ \E d \in SeqToSet(last.ret) : domain_state[d].weight > 0
    /\ \E d \in DOMAIN domain_state : ~InSeq(d, last.ret)
    /\ DOMAIN redirects # {}
    /\ DOMAIN shards[1].db # {}

\* The weights of the urls of the domain stored as Pending, read key by key.
PendingWeights(shs, domain) == {DbGet(shs, domain, u)[1].weight : u \in StoredPending(shs, domain)}

JobDomains == last.args[1]
UrlsPerJob == last.args[2]
PendingAt == last.args[3]

\* C7: after prepare_jobs, every url of every returned job reads back as Crawling
\* from the url store, however many shards there are.
C7_JobsCrawling ==
    Prepared =>
        \A i \in 1..Len(last.ret) :
            \A u \in SeqToSet(last.ret[i].urls) :
                /\ DbGet(shards, last.ret[i].domain, u) # None
                /\ DbGet(shards, last.ret[i].domain, u)[1].status = "Crawling"

\* A job with a url whose older state, Pending, is still in an older shard.
C7_Witness ==
    /\ Prepared
    /\ Len(shards) >= 2
    /\ \E i \in 1..Len(last.ret) :
         \E u \in SeqToSet(last.ret[i].urls) :
            /\ Key(last.ret[i].domain, u) \in DOMAIN shards[1].db
            /\ ShardGet(shards[1], last.ret[i].domain, u)[1].status = "Pending"

\* C8: prepare_jobs returns one job per input domain, in input order; the job of d
\* holds min(k, P) distinct urls, all of them among the P urls of d stored as Pending
\* when d was processed.
C8_JobContents ==
    Prepared =>
        /\ Len(last.ret) = Len(JobDomains)
        /\ \A i \in 1..Len(last.ret) :
            /\ last.ret[i].domain = JobDomains[i]
            /\ Len(last.ret[i].urls) = Min(UrlsPerJob, Cardinality(PendingAt[i]))
            /\ \A a, b \in 1..Len(last.ret[i].urls) :
                   last.ret[i].urls[a] = last.ret[i].urls[b] => a = b
            /\ SeqToSet(last.ret[i].urls) \subseteq PendingAt[i]

\* Two jobs, the first with fewer urls than were Pending, the second drawn after the
\* urls of the first had become Crawling.
C8_Witness ==
    /\ Prepared
    /\ Len(last.ret) = 2
    /\ UrlsPerJob >= 1
    /\ Cardinality(PendingAt[1]) > UrlsPerJob
    /\ JobDomains[1] = JobDomains[2]
    /\ last.ret[2].urls # <<>>

\* C9 as stated: after prepare_jobs has processed d, the stored weight of d is the
\* largest weight among the urls of d still Pending after the call, 0 when there is none.
C9_WeightOfRemaining ==
    Prepared =>
        \A d \in SeqToSet(JobDomains) :
            domain_state[d].weight = MaxOf(PendingWeights(shards, d))

\* The domains a call of insert_urls or prepare_jobs touches.
Touched ==
    IF Ingested
    THEN UNION {{DomainOf(u) : u \in SeqToSet(last.args[1][r].discovered_urls)} :
                    r \in 1..Len(last.args[1])}
    ELSE SeqToSet(JobDomains)

\* C10: right after insert_urls or prepare_jobs has touched d, the stored weight of d
\* is at least the weight of every url of d stored as Pending.
C10_WeightBoundsPending ==
    (Ingested \/ Prepared) =>
        \A d \in Touched :
            /\ d \in DOMAIN domain_state
            /\ domain_state[d].weight >= MaxOf(PendingWeights(shards, d))

\* An ingest right after prepare_jobs, on a domain with a url handed out and a
\* Pending url of positive weight.
C10_Witness ==
    /\ Ingested
    /\ last.prev.op = "prepare_jobs"
    /\ \E d \in Touched :
        /\ MaxOf(PendingWeights(shards, d)) >= 1
        /\ \E u \in Urls : /\ DbGet(shards, d, u) # None
                           /\ DbGet(shards, d, u)[1].status = "Crawling"

\* The urls that some shard holds under the domain: no key is ever deleted, so these
\* are the urls ever written under it.
WrittenUnder(shs, domain) ==
    {u \in Urls : \E i \in 1..Len(shs) : Key(domain, u) \in DOMAIN shs[i].db}

\* C11: after any operation, every stored domain has weight >= 0 and total_urls at
\* least the number of distinct urls ever written to the url store under it.
C11_CountsBound ==
    \A d \in DOMAIN domain_state :
        /\ domain_state[d].weight >= 0
        /\ domain_state[d].total_urls >= Cardinality(WrittenUnder(shards, d))

\* A domain whose two urls lie in two shards and whose total_urls is exactly 2.
C11_Witness ==
    /\ Len(shards) = 2
    /\ \E d \in DOMAIN domain_state :
        /\ Cardinality(WrittenUnder(shards, d)) = 2
        /\ domain_state[d].total_urls = 2
        /\ \E u \in Urls : Key(d, u) \in DOMAIN shards[2].db /\ Key(d, u) \notin DOMAIN shards[1].db

StatusSet == last.op = "set_domain_status"
Called == last.op # "open"

\* C18: set_domain_status(d, s) sets the status of a known d to s and keeps its weight
\* and total_urls; for an unknown d it stores {weight 0, status s, total_urls 0}; every
\* other domain, the url states and the redirects are unchanged.
C18_SetStatusFrame ==
    StatusSet =>
        LET d == last.args[1]
            s == last.args[2]
            pre == last.pre.domain_state
        IN  /\ DOMAIN domain_state = DOMAIN pre \cup {d}
            /\ domain_state[d] = IF d \in DOMAIN pre
                                  THEN [pre[d] EXCEPT !.status = s]
                                  ELSE [weight |-> 0, status |-> s, total_urls |-> 0]
            /\ \A o \in DOMAIN pre : o # d => domain_state[o] = pre[o]
            /\ shards = last.pre.shards
            /\ redirects = last.pre.redirects

\* The status of a domain with urls and a positive weight set to another status,
\* next to another stored domain.
C18_Witness ==
    /\ StatusSet
    /\ last.args[1] \in DOMAIN last.pre.domain_state
    /\ last.pre.domain_state[last.args[1]].status # last.args[2]
    /\ domain_state[last.args[1]].weight >= 1
    /\ domain_state[last.args[1]].total_urls >= 1
    /\ \E o \in DOMAIN domain_state : o # last.args[1]

\* The stored status of the url before and after the last call.
StatusBefore(d, u) == DbGet(last.pre.shards, d, u)[1].status
StatusAfter(d, u) == DbGet(shards, d, u)[1].status

\* C19 as stated: the status of a stored url only moves forward: a call changes it
\* only from Pending to Crawling, and only prepare_jobs does; no call brings a url
\* that is Crawling, Done or Failed back to Pending.
C19_StatusForward ==
    Called =>
        \A d \in Domains, u \in Urls :
            (DbGet(last.pre.shards, d, u) # None /\ StatusAfter(d, u) # StatusBefore(d, u)) =>
                /\ StatusBefore(d, u) = "Pending"
                /\ StatusAfter(d, u) = "Crawling"
                /\ Prepared

\* C20: the status of a stored domain is changed only by sample_domains, from Pending
\* to CrawlInProgress, and by set_domain_status on that domain; a domain that a call
\* creates is Pending, or has the given status when set_domain_status creates it.
C20_DomainStatusFrame ==
    Called =>
        \A d \in DOMAIN domain_state :
            IF d \in DOMAIN last.pre.domain_state
            THEN domain_state[d].status # last.pre.domain_state[d].status =>
                    \/ /\ Sampled
                       /\ last.pre.domain_state[d].status = "Pending"
                       /\ domain_state[d].status = "CrawlInProgress"
                    \/ /\ StatusSet
                       /\ last.args[1] = d
            ELSE IF StatusSet
                 THEN last.args[1] = d /\ domain_state[d].status = last.args[2]
                 ELSE domain_state[d].status = "Pending"

\* An ingest that discovered a url of a domain that is CrawlInProgress and, in the
\* same call or before, a domain created by a call.
C20_Witness ==
    /\ Ingested
    /\ \E d \in Touched :
        /\ d \in DOMAIN last.pre.domain_state
        /\ last.pre.domain_state[d].status = "CrawlInProgress"
        /\ domain_state[d].total_urls > last.pre.domain_state[d].total_urls

Seeded == last.op = "insert_seed_urls"
SeedUrls == last.args[1]

\* The number of urls of the domain in the list given to insert_seed_urls.
SeedCount(d) == Cardinality({i \in 1..Len(SeedUrls) : DomainOf(SeedUrls[i]) = d})

\* C17: insert_seed_urls stores {weight 0, Pending, total_urls 1} for the unknown
\* domain of a url, adds exactly 1 to total_urls of a known domain for each url and
\* keeps its weight and status, also for a url already stored; afterwards the store
\* holds {weight 0, Pending} for every url of the list, whatever it held before.
C17_SeedEffect ==
    Seeded =>
        /\ \A d \in {DomainOf(u) : u \in SeqToSet(SeedUrls)} :
            /\ d \in DOMAIN domain_state
            /\ domain_state[d] =
                  IF d \in DOMAIN last.pre.domain_state
                  THEN [last.pre.domain_state[d] EXCEPT !.total_urls = @ + SeedCount(d)]
                  ELSE [weight |-> 0, status |-> "Pending", total_urls |-> SeedCount(d)]
        /\ \A u \in SeqToSet(SeedUrls) :
               DbGet(shards, DomainOf(u), u) = Some([weight |-> 0, status |-> "Pending"])

\* A seed of a url that the store held as Crawling, in a domain already known.
C17_Witness ==
    /\ Seeded
    /\ \E u \in SeqToSet(SeedUrls) :
        /\ DbGet(last.pre.shards, DomainOf(u), u) # None
        /\ DbGet(last.pre.shards, DomainOf(u), u)[1].status = "Crawling"
        /\ domain_state[DomainOf(u)].total_urls = 2

(***************************************************************************)
(* Properties of the hand-out of urls, under SpecJobs.                     *)
(***************************************************************************)
\* C29: over any sequence of ingest, set_domain_status, sample_domains and
\* prepare_jobs calls, and seeds of urls that are not stored yet, no url is put into
\* the jobs returned by prepare_jobs more than once in total.
C29_HandedOnce == \A u \in DOMAIN handed : handed[u] <= 1

\* A prepare_jobs call that lists a domain twice and hands out nothing of a url of
\* that domain that was handed out before, was discovered again by the ingest just
\* before the call, and has entries in two shards.
C29_Witness ==
    /\ Prepared
    /\ Len(last.args[1]) = 2
    /\ last.args[1][1] = last.args[1][2]
    /\ last.prev.op = "insert_urls"
    /\ \E u \in Urls :
        /\ DomainOf(u) = last.args[1][1]
        /\ last.prev.args[1][1].discovered_urls = <<u>>
        /\ HandedCount(handed, u) = 1
        /\ CountIn(last.ret, u) = 0
        /\ Len(shards) = 2
        /\ Key(DomainOf(u), u) \in DOMAIN shards[1].db
        /\ Key(DomainOf(u), u) \in DOMAIN shards[2].db

\* A prepare_jobs call on one domain with urls_per_job >= 1.
PreparedOne == Prepared /\ Len(last.args[1]) = 1 /\ last.args[2] >= 1
OneDomain == last.args[1][1]
PendingBefore == StoredPending(last.pre.shards, OneDomain)
PendingAfter == StoredPending(shards, OneDomain)
JobUrls == {last.ret[1].urls[i] : i \in 1..Len(last.ret[1].urls)}

\* The call moved min(k, remaining) urls of the domain from Pending to Crawling and
\* returned them, each once, in its job.
MovedToCrawling ==
    /\ Len(last.ret) = 1
    /\ last.ret[1].domain = OneDomain
    /\ Len(last.ret[1].urls) = Min(last.args[2], Cardinality(PendingBefore))
    /\ Cardinality(JobUrls) = Len(last.ret[1].urls)
    /\ JobUrls \subseteq PendingBefore
    /\ PendingAfter = PendingBefore \ JobUrls
    /\ \A u \in JobUrls : DbGet(shards, OneDomain, u)[1].status = "Crawling"

StatesUnchanged ==
    \A d \in Domains, u \in Urls : DbGet(shards, d, u) = DbGet(last.pre.shards, d, u)

\* C30 as stated: every call prepare_jobs([d], k) with k >= 1 moves min(k, remaining)
\* urls of d from Pending to Crawling, and once none remains it returns an empty queue
\* and leaves the url store as it was, shard for shard.
C30_AsStated ==
    PreparedOne =>
        /\ MovedToCrawling
        /\ PendingBefore = {} =>
            /\ last.ret[1].urls = <<>>
            /\ Len(shards) = Len(last.pre.shards)
            /\ \A i \in 1..Len(shards) :
                   /\ shards[i].db = last.pre.shards[i].db
                   /\ shards[i].ranges = last.pre.shards[i].ranges

\* C30: every call prepare_jobs([d], k) with k >= 1 moves min(k, remaining) urls of d
\* from Pending to Crawling, so that repeated calls hand out every Pending url; once
\* none remains the call returns an empty queue and leaves every stored url state as
\* it was, the shards it found untouched, with at most one new, empty shard appended.
C30_HandsOutAll ==
    PreparedOne =>
        /\ MovedToCrawling
        /\ PendingBefore = {} =>
            /\ last.ret[1].urls = <<>>
            /\ StatesUnchanged
            /\ \A i \in 1..Len(last.pre.shards) :
                   /\ shards[i].db = last.pre.shards[i].db
                   /\ shards[i].ranges = last.pre.shards[i].ranges
            /\ Len(shards) = Len(last.pre.shards)
               \/ (Len(shards) = Len(last.pre.shards) + 1 /\ DOMAIN shards[Len(shards)].db = {})

\* A second prepare_jobs([d], 1) in a row: the first handed out one of two Pending
\* urls of d, the second the other one.
C30_Witness ==
    /\ PreparedOne
    /\ last.args[2] = 1
    /\ last.prev.op = "prepare_jobs"
    /\ last.prev.args[1] = last.args[1]
    /\ last.prev.args[2] = 1
    /\ Cardinality(PendingBefore) = 1
    /\ PendingAfter = {}
    /\ \E u \in Urls : HandedCount(handed, u) = 1 /\ u \notin JobUrls /\ DomainOf(u) = OneDomain

\* A prepare_jobs([d], k) call that found nothing Pending after an earlier call had
\* handed out the last url, and that appended a shard.
EmptyBatchRolls ==
    /\ PreparedOne
    /\ PendingBefore = {}
    /\ last.prev.op = "prepare_jobs"
    /\ last.prev.ret[1].urls # <<>>
    /\ Len(shards) = Len(last.pre.shards) + 1

(***************************************************************************)
(* Properties of insert_urls, under SpecIngest.                            *)
(***************************************************************************)
Responses == last.args[1]

\* The urls the responses of the last insert_urls list as discovered.
Discovered == UNION {SeqToSet(Responses[r].discovered_urls) : r \in 1..Len(Responses)}

\* The occurrences of u in discovered_urls of responses of another domain than u's.
CrossOccurrences(u) ==
    {<<r, i>> \in (1..Len(Responses)) \X (1..MaxManyDiscovered) :
        /\ i <= Len(Responses[r].discovered_urls)
        /\ Responses[r].discovered_urls[i] = u
        /\ Responses[r].domain # DomainOf(u)}

WeightBefore(u) ==
    UnwrapOrDefault(DbGet(last.pre.shards, DomainOf(u), u), DefaultUrlState).weight

\* C15 as stated: after insert_urls, the stored weight of every discovered url is its
\* weight before the call, 0 if it was unknown, plus the number of its occurrences in
\* discovered_urls of responses of another domain.
C15_WeightPerOccurrence ==
    Ingested =>
        \A u \in Discovered :
            /\ DbGet(shards, DomainOf(u), u) # None
            /\ DbGet(shards, DomainOf(u), u)[1].weight =
                   WeightBefore(u) + Cardinality(CrossOccurrences(u))

\* C16: insert_urls returns exactly the set of the domains of the urls that its
\* responses list as discovered; the domain of a response or of a redirect is in it
\* only when a discovered url belongs to it.
C16_ReturnedDomains ==
    Ingested => last.ret = {DomainOf(u) : u \in Discovered}

\* A response of a domain that is not returned, with a redirect to a url of a domain
\* that is not returned, and a discovered url whose domain is returned.
C16_Witness ==
    /\ Ingested
    /\ last.ret # {}
    /\ \E r \in 1..Len(Responses) :
        /\ Responses[r].domain \notin last.ret
        /\ Responses[r].url_responses # <<>>
        /\ DomainOf(Responses[r].url_responses[1].new_url) \notin last.ret
        /\ Responses[r].url_responses[1].url \in DOMAIN redirects

\* The urls of the domain that the last insert_urls discovered and the store did not hold.
NewUrls(d) ==
    {u \in Discovered : DomainOf(u) = d /\ DbGet(last.pre.shards, d, u) = None}

TotalBefore(d) ==
    UnwrapOrDefault(KvGet(last.pre.domain_state, d), DefaultDomainState).total_urls

\* C23 as stated: within one insert_urls every occurrence of a url is processed on the
\* state its earlier occurrences produced: total_urls of a domain rises by one for each
\* new url of the call, once, and the weight of a url by one for each of its
\* occurrences in a response of another domain.
C23_ReadsSeeEarlierWrites ==
    Ingested =>
        /\ \A d \in Touched :
               domain_state[d].total_urls = TotalBefore(d) + Cardinality(NewUrls(d))
        /\ \A u \in Discovered :
               DbGet(shards, DomainOf(u), u)[1].weight =
                   WeightBefore(u) + Cardinality(CrossOccurrences(u))

\* The url states, the domain states and the returned set of an outcome of insert_urls
\* are those the stores hold now.
SameResult(o) ==
    /\ o.ret = last.ret
    /\ o.st.domain_state = domain_state
    /\ \A d \in Domains, u \in Urls : DbGet(o.st.shards, d, u) = DbGet(shards, d, u)

\* C28 as stated: for the state before the call and the responses given, insert_urls
\* produces the same url states, domain states and returned set whatever the order in
\* which the workers append the discovered urls to the lists of their domains.
C28_SameForEveryInterleaving ==
    Ingested => \A o \in insert_urls(last.pre, Responses) : SameResult(o)

(***************************************************************************)
(* Properties of the failures, under SpecFaults.                           *)
(***************************************************************************)
PointRead == last.op \in {"get_url_state", "get_domain_state", "get_range", "get_redirect"}

\* The record that the point read of the last call addressed does not decode.
ReadUndecodable ==
    \/ /\ last.op = "get_url_state"
       /\ \E i \in 1..Len(shards) :
            /\ Key(last.args[1], last.args[2]) \in DOMAIN shards[i].db
            /\ ~UrlStateDecodes(shards[i].db[Key(last.args[1], last.args[2])])
            /\ \A j \in (i + 1)..Len(shards) :
                  Key(last.args[1], last.args[2]) \notin DOMAIN shards[j].db
    \/ /\ last.op = "get_domain_state"
       /\ last.args[1] \in DOMAIN domain_state
       /\ ~DomainStateDecodes(domain_state[last.args[1]])
    \/ /\ last.op = "get_range"
       /\ last.args[2] \in DOMAIN shards[last.args[1]].ranges
       /\ ~RangeDecodes(shards[last.args[1]].ranges[last.args[2]])
    \/ /\ last.op = "get_redirect"
       /\ last.args[1] \in DOMAIN redirects
       /\ ~UrlDecodes(redirects[last.args[1]])

\* The url states of the domain that decode and lie within the range record of
\* their shard.
Listable(d) ==
    {u \in Urls : \E i \in 1..Len(shards) :
        /\ Key(d, u) \in DOMAIN shards[i].db
        /\ UrlStateDecodes(shards[i].db[Key(d, u)])
        /\ d \in DOMAIN shards[i].ranges
        /\ KeyLeq(shards[i].ranges[d].start, Key(d, u))
        /\ KeyLeq(Key(d, u), shards[i].ranges[d].end)}

RangesDecode(d) ==
    \A i \in 1..Len(shards) : d \in DOMAIN shards[i].ranges => RangeDecodes(shards[i].ranges[d])

\* C22 as stated: a record that does not decode is left out, without an error, by
\* get_all_urls and by the iteration over the domain states; a point get of a url
\* state, a domain state, a range record or a redirect that meets such a record
\* returns an error; and no read panics.
C22_DecodeFailures ==
    /\ (last.op = "get_all_urls" /\ RangesDecode(last.args[1])) =>
          /\ last.ret.kind = "Ok"
          /\ DOMAIN last.ret.val = Listable(last.args[1])
    /\ last.op = "iter_domains" =>
          /\ last.ret.kind = "Ok"
          /\ {e[1] : e \in {last.ret.val[i] : i \in 1..Len(last.ret.val)}}
                = {d \in DOMAIN domain_state : DomainStateDecodes(domain_state[d])}
    /\ PointRead =>
          /\ last.ret.kind # "Panic"
          /\ ReadUndecodable => last.ret.kind = "Err"
          /\ ~ReadUndecodable => last.ret.kind = "Ok"

IngestedUnderPlan == last.op = "insert_urls"
Plan == last.args[2]

\* The responses with the discovered urls of the domains in D only.
Restricted(responses, D) ==
    [r \in 1..Len(responses) |->
        [responses[r] EXCEPT !.discovered_urls = SelectSeq(@, LAMBDA u : DomainOf(u) \in D)]]

RECURSIVE LatestBytes(_, _, _)
LatestBytes(shs, i, key) ==
    IF i = 0 THEN None
    ELSE IF key \in DOMAIN shs[i].db THEN Some(shs[i].db[key])
    ELSE LatestBytes(shs, i - 1, key)

\* A failed redirect write leaves the result of the call and the url and domain
\* states as they are without it.
RedirectFailureSwallowed ==
    Plan.redirect_fails =>
        /\ redirects = last.pre.redirects
        /\ \E o \in FaultyInsertUrls(last.pre, last.args[1], [Plan EXCEPT !.redirect_fails = FALSE]) :
              /\ o.kind = last.ret.kind
              /\ o.ret = last.ret.val
              /\ o.st.domain_state = domain_state
              /\ o.st.shards = shards

\* After an error the domains whose turn had ended hold what an ingest of their
\* urls alone gives them.
DoneDomainsUpdated ==
    last.ret.kind = "Err" =>
        \E o \in FaultyInsertUrls(last.pre, Restricted(last.args[1], last.ret.done), NoFault) :
            /\ o.kind = "Ok"
            /\ \A d \in last.ret.done :
                  /\ domain_state[d] = o.st.domain_state[d]
                  /\ \A u \in Urls :
                        LatestBytes(shards, Len(shards), Key(d, u))
                            = LatestBytes(o.st.shards, Len(o.st.shards), Key(d, u))

\* C21 as stated: in ingest a failed redirect write never makes the call return an
\* error and never changes the url and domain states written; a failed read or write
\* of a url state or a domain state makes the call return that error, and the domains
\* processed before the failure are left updated.
C21_IngestFailures ==
    IngestedUnderPlan =>
        /\ RedirectFailureSwallowed
        /\ last.ret.failed # "none" => last.ret.kind = "Err"
        /\ DoneDomainsUpdated

\* The same apart from the read of a url state that does not decode.
IngestFailuresApartFromPanic ==
    IngestedUnderPlan =>
        /\ RedirectFailureSwallowed
        /\ (last.ret.failed # "none" /\ last.ret.kind # "Panic") => last.ret.kind = "Err"
        /\ last.ret.kind = "Ok" => last.ret.failed = "none"
        /\ DoneDomainsUpdated

\* An ingest that failed in the turn of its second domain, after a failed
\* redirect write, the first domain holding its new url.
PartialIngest ==
    /\ IngestedUnderPlan
    /\ Plan.redirect_fails
    /\ last.args[1][1].url_responses # <<>>
    /\ last.ret.kind = "Err"
    /\ last.ret.done # {}
    /\ \E d \in last.ret.done : domain_state[d] # UnwrapOrDefault(KvGet(last.pre.domain_state, d), DefaultDomainState)

====
